---- MODULE Spec2Model ----
(***************************************************************************)
(* Promotion ledger and moderation queue of the Bhookad backend.           *)
(*                                                                         *)
(* The route handlers of src/routes/vendor-promotions.js (purchase,        *)
(* cancel), src/unnamed/part_002 (vlogger posts: submit, review) and       *)
(* src/unnamed/part_005 (admin: review) are modelled step by step: every   *)
(* `await` of a gateway call is one atomic step, so that handlers of       *)
(* concurrent requests interleave exactly where the event loop lets them.  *)
(***************************************************************************)
EXTENDS Integers, Sequences, FiniteSets, TLC

VARIABLES
  promotions,   \* table vendor_promotions: sequence of rows, row i has id i
  vendors,      \* table vendors: featured-state columns of each vendor row
  now,          \* the wall clock, in days since 1 January of year 0
  req,          \* in-flight requests of the promotions router
  res,          \* the response the promotions router sent last
  posts,        \* table vlogger_posts: sequence of rows, row i has id i
  mreq,         \* in-flight requests of the posts/admin routers
  mres          \* the response the posts/admin routers sent last

vars == <<promotions, vendors, now, req, res, posts, mreq, mres>>

----------------------------------------------------------------------------
(* Bounds of the model *)

MaxPromos == 2      \* rows the ledger may hold
NumReqs == 2        \* request slots of the promotions router
MaxPosts == 2       \* rows the moderation queue may hold
NumModReqs == 2     \* request slots of the posts/admin routers

Reqs == 1..NumReqs
ModReqs == 1..NumModReqs

----------------------------------------------------------------------------
(* JavaScript values: request bodies are JSON, so a field is absent, a     *)
(* number or a string; columns may hold null or an ISO timestamp.          *)

Undef == [t |-> "undefined"]
Null == [t |-> "null"]
NaN == [t |-> "NaN"]
Num(n) == [t |-> "number", v |-> n]
Str(s) == [t |-> "string", s |-> s]
ISO(d) == [t |-> "iso", v |-> d]

\* !x of JavaScript
Falsy(x) ==
  \/ x.t \in {"undefined", "null", "NaN"}
  \/ x.t = "number" /\ x.v = 0
  \/ x.t = "string" /\ x.s = ""

\* the numeric strings request bodies of the model may carry
NumericStrings == [s \in {"2999", "7999", "500", "0", "-5"} |->
  CASE s = "2999" -> 2999 [] s = "7999" -> 7999 [] s = "500" -> 500
    [] s = "0" -> 0 [] s = "-5" -> 0 - 5]

\* parseFloat(x): a number is printed and parsed back, a string is parsed,
\* anything that does not start with a number gives NaN
ParseFloat(x) ==
  IF x.t = "number" THEN x
  ELSE IF x.t = "string" /\ x.s \in DOMAIN NumericStrings THEN Num(NumericStrings[x.s])
  ELSE NaN

\* x || null
OrNull(x) == IF Falsy(x) THEN Null ELSE x

----------------------------------------------------------------------------
(* Dates: a Date is a day number; years have 365 days (no leap year lies   *)
(* in the modelled period).  setMonth normalises as JavaScript does: a     *)
(* month past December carries into the year, a day past the end of the    *)
(* month carries into the following month.                                 *)

MonthLen == <<31, 28, 31, 30, 31, 30, 31, 31, 30, 31, 30, 31>>
CumDays == <<0, 31, 59, 90, 120, 151, 181, 212, 243, 273, 304, 334>>

getFullYear(d) == d \div 365
getMonth(d) ==
  CHOOSE m \in 0..11 :
    /\ CumDays[m + 1] <= d % 365
    /\ d % 365 < CumDays[m + 1] + MonthLen[m + 1]
getDate(d) == (d % 365) - CumDays[getMonth(d) + 1] + 1

MakeDate(y, m, dd) == (y + (m \div 12)) * 365 + CumDays[(m % 12) + 1] + (dd - 1)
setMonth(d, m) == MakeDate(getFullYear(d), m, getDate(d))

----------------------------------------------------------------------------
(* Actors and inputs *)

NoUser == "anonymous"           \* req.user is not set
Vendors == {"v1", "v2"}
Users == Vendors \cup {NoUser}

\* the clock readings of the model: 31 January and 3 March (one month after
\* 31 January, as setMonth computes it)
Instants == {30, 61}

\* request bodies of POST /purchase
Bodies ==
  { [package_id |-> Str("basic"), package_name |-> Str("Basic Boost"),
     package_price |-> Num(2999), package_duration |-> Str("1 Month")],
    [package_id |-> Str("premium"), package_name |-> Str("Premium Push"),
     package_price |-> Str("7999"), package_duration |-> Str("3 Months")],
    [package_id |-> Undef, package_name |-> Str("Basic Boost"),
     package_price |-> Num(2999), package_duration |-> Str("1 Month")] }

\* request bodies no package of the catalog gives: a duration the handler does
\* not know, prices that are not above zero, and the id and price of one
\* package with the duration of another
OddBodies ==
  { [package_id |-> Str("basic"), package_name |-> Str("Basic Boost"),
     package_price |-> Num(2999), package_duration |-> Str("3 Months")],
    [package_id |-> Str("basic"), package_name |-> Str("Basic Boost"),
     package_price |-> Num(2999), package_duration |-> Str("2 Weeks")],
    [package_id |-> Str("basic"), package_name |-> Str("Basic Boost"),
     package_price |-> Num(0 - 5), package_duration |-> Str("1 Month")],
    [package_id |-> Str("basic"), package_name |-> Str("Basic Boost"),
     package_price |-> Str("0"), package_duration |-> Str("1 Month")],
    [package_id |-> Str("basic"), package_name |-> Str("Basic Boost"),
     package_price |-> Num(0), package_duration |-> Str("1 Month")] }

NoBody == [package_id |-> Undef, package_name |-> Undef,
           package_price |-> Undef, package_duration |-> Undef]

\* what a gateway call may answer
Gateway == {"ok", "error"}

----------------------------------------------------------------------------
(* Requests of the promotions router *)

IdleReq ==
  [op |-> "none", pc |-> "idle", vendorId |-> NoUser, body |-> NoBody, id |-> 0,
   startDate |-> 0, endDate |-> 0, at |-> 0]

NoResponse == [op |-> "none", status |-> 0, message |-> "", id |-> 0, logged |-> "none"]

\* error.message of a gateway call that failed, and of a .single() that did
\* not get exactly one row
GatewayMessage == "gateway error"
NoRowsMessage == "JSON object requested, multiple (or no) rows returned"

\* error.message of a call of .single() on `rows`
ErrorMessage(rows, gw) == IF gw = "error" THEN GatewayMessage ELSE NoRowsMessage

\* res.status(code).json({success, message, promotion}): the handler returns,
\* its locals are gone.  id is the promotion the response carries (0: none);
\* logged is what console.error recorded of the featured-state write
Respond(r, op, code, message, id, logged) ==
  /\ req' = [req EXCEPT ![r] = IdleReq]
  /\ res' = [op |-> op, status |-> code, message |-> message, id |-> id, logged |-> logged]

Quiet == \A r \in Reqs : req[r].pc = "idle"

\* no request of vendor v is between its first step and its response
Settled(v) == \A r \in Reqs : req[r].pc = "idle" \/ req[r].vendorId # v

\* a new request takes the first slot that is not in use
Free(r) ==
  /\ req[r].pc = "idle"
  /\ \A q \in Reqs : q < r => req[q].pc # "idle"

\* purchases between their start and their insert
PendingInserts == {r \in Reqs : req[r].op = "purchase" /\ req[r].pc \in {"lookup", "insert"}}

Ids == 1..Len(promotions)

\* .from('vendor_promotions').select('*').eq('vendor_id', v).eq('status', 'active')
ActiveOf(v) == {i \in Ids : promotions[i].vendor_id = v /\ promotions[i].status = "active"}

\* .single(): the row when exactly one row matches and the call succeeds;
\* otherwise data is null (and error is set)
Single(rows, gw) == IF gw = "ok" /\ Cardinality(rows) = 1 THEN rows ELSE {}

----------------------------------------------------------------------------
(* POST /api/vendor-promotions/purchase *)

\* lines 90-100
EndDate(startDate, package_duration) ==
  IF package_duration = Str("1 Month") THEN setMonth(startDate, getMonth(startDate) + 1)
  ELSE IF package_duration = Str("3 Months") THEN setMonth(startDate, getMonth(startDate) + 3)
  ELSE IF package_duration = Str("6 Months") THEN setMonth(startDate, getMonth(startDate) + 6)
  ELSE startDate

\* PurchaseBegin that does not look at the fields of the body
PurchaseBeginUnvalidated(r, user, body) ==
  /\ Free(r)
  /\ Len(promotions) + Cardinality(PendingInserts) < MaxPromos
  /\ IF user = NoUser
       THEN Respond(r, "purchase", 401, "Authentication required", 0, "none")
       ELSE /\ req' = [req EXCEPT ![r] =
                [IdleReq EXCEPT !.op = "purchase", !.pc = "lookup",
                                !.vendorId = user, !.body = body]]
            /\ UNCHANGED res
  /\ UNCHANGED <<promotions, vendors, now, posts, mreq, mres>>

\* lines 49-73: identity and required fields, decided before the first await
PurchaseBegin(r, user, body) ==
  /\ Free(r)
  /\ Len(promotions) + Cardinality(PendingInserts) < MaxPromos
  /\ IF user = NoUser
       THEN Respond(r, "purchase", 401, "Authentication required", 0, "none")
     ELSE IF \/ Falsy(body.package_id) \/ Falsy(body.package_name)
             \/ Falsy(body.package_price) \/ Falsy(body.package_duration)
       THEN Respond(r, "purchase", 400, "Package details are required", 0, "none")
     ELSE /\ req' = [req EXCEPT ![r] =
              [IdleReq EXCEPT !.op = "purchase", !.pc = "lookup",
                              !.vendorId = user, !.body = body]]
          /\ UNCHANGED res
  /\ UNCHANGED <<promotions, vendors, now, posts, mreq, mres>>

\* ExistingPromotion with the check left out: every purchase goes on
ExistingPromotionUnchecked(v, gw) == FALSE

\* the active-promotion check of Purchase, lines 76-83
ExistingPromotion(v, gw) == Single(ActiveOf(v), gw) # {}

\* lines 75-103: the lookup answers; reject, or compute the dates
PurchaseLookup(r, gw) ==
  /\ req[r].op = "purchase" /\ req[r].pc = "lookup"
  /\ IF ExistingPromotion(req[r].vendorId, gw)
       THEN Respond(r, "purchase", 400,
                    "You already have an active promotion. Please wait for it to expire.",
                    0, "none")
       ELSE /\ req' = [req EXCEPT ![r].pc = "insert",
                                 ![r].startDate = now,
                                 ![r].endDate = EndDate(now, req[r].body.package_duration)]
            /\ UNCHANGED res
  /\ UNCHANGED <<promotions, vendors, now, posts, mreq, mres>>

\* the row of lines 109-122
NewPromotion(q) ==
  [vendor_id |-> q.vendorId,
   package_id |-> q.body.package_id,
   package_price |-> ParseFloat(q.body.package_price),
   package_duration |-> q.body.package_duration,
   start_date |-> ISO(q.startDate),
   end_date |-> ISO(q.endDate),
   status |-> "active",
   payment_status |-> "completed",
   cancelled_at |-> Null]

\* PurchaseInsert that does not look at insertError
PurchaseInsertUnchecked(r, gw) ==
  /\ req[r].op = "purchase" /\ req[r].pc = "insert"
  /\ IF gw = "error"
       THEN /\ req' = [req EXCEPT ![r].pc = "feature"]
            /\ UNCHANGED promotions
       ELSE /\ promotions' = Append(promotions, NewPromotion(req[r]))
            /\ req' = [req EXCEPT ![r].pc = "feature", ![r].id = Len(promotions) + 1]
  /\ UNCHANGED <<res, vendors, now, posts, mreq, mres>>

\* lines 105-132: the insert answers
PurchaseInsert(r, gw) ==
  /\ req[r].op = "purchase" /\ req[r].pc = "insert"
  /\ IF gw = "error"
       THEN /\ Respond(r, "purchase", 400, GatewayMessage, 0, "none")
            /\ UNCHANGED promotions
       ELSE /\ promotions' = Append(promotions, NewPromotion(req[r]))
            /\ req' = [req EXCEPT ![r].pc = "feature", ![r].id = Len(promotions) + 1]
            /\ UNCHANGED res
  /\ UNCHANGED <<vendors, now, posts, mreq, mres>>

\* PurchaseFeatured with the start date where the end date belongs
PurchaseFeaturedFromStart(q) ==
  [is_featured |-> TRUE, promotion_tier |-> q.body.package_id,
   featured_until |-> ISO(q.startDate)]

\* the patch of lines 137-142
PurchaseFeatured(q) ==
  [is_featured |-> TRUE, promotion_tier |-> q.body.package_id,
   featured_until |-> ISO(q.endDate)]

\* PurchaseFeature that takes the purchase back when the featured-state write
\* fails
PurchaseFeatureOrUndo(r, gw) ==
  /\ req[r].op = "purchase" /\ req[r].pc = "feature"
  /\ IF gw = "ok"
       THEN /\ vendors' = [vendors EXCEPT ![req[r].vendorId] = PurchaseFeatured(req[r])]
            /\ Respond(r, "purchase", 201, "Promotion purchased successfully!",
                       req[r].id, "none")
            /\ UNCHANGED promotions
       ELSE /\ promotions' = [promotions EXCEPT ![req[r].id].status = "cancelled"]
            /\ Respond(r, "purchase", 400, GatewayMessage, 0, "none")
            /\ UNCHANGED vendors
  /\ UNCHANGED <<now, posts, mreq, mres>>

\* lines 134-155: the featured-state write answers; its error is only logged
PurchaseFeature(r, gw) ==
  /\ req[r].op = "purchase" /\ req[r].pc = "feature"
  /\ IF gw = "ok"
       THEN vendors' = [vendors EXCEPT ![req[r].vendorId] = PurchaseFeatured(req[r])]
       ELSE UNCHANGED vendors
  /\ Respond(r, "purchase", 201, "Promotion purchased successfully!", req[r].id,
             IF gw = "ok" THEN "none" ELSE "Error updating vendor profile")
  /\ UNCHANGED <<promotions, now, posts, mreq, mres>>

----------------------------------------------------------------------------
(* PATCH /api/vendor-promotions/:id/cancel *)

\* lines 235-252: identity; the update is built, with its timestamp
CancelBegin(r, user, id) ==
  /\ Free(r)
  /\ IF user = NoUser
       THEN Respond(r, "cancel", 401, "Authentication required", 0, "none")
       ELSE /\ req' = [req EXCEPT ![r] =
                [IdleReq EXCEPT !.op = "cancel", !.pc = "update",
                                !.vendorId = user, !.id = id, !.at = now]]
            /\ UNCHANGED res
  /\ UNCHANGED <<promotions, vendors, now, posts, mreq, mres>>

\* CancelRows filtered on the id alone
CancelRowsOfAnyVendor(id, v) == {i \in Ids : i = id}

\* .eq('id', id).eq('vendor_id', vendorId): the rows the update touches
CancelRows(id, v) == {i \in Ids : i = id /\ promotions[i].vendor_id = v}

\* lines 247-263: the update answers
CancelUpdate(r, gw) ==
  /\ req[r].op = "cancel" /\ req[r].pc = "update"
  /\ LET rows == Single(CancelRows(req[r].id, req[r].vendorId), gw) IN
     IF rows = {}
       THEN /\ Respond(r, "cancel", 400,
                       ErrorMessage(CancelRows(req[r].id, req[r].vendorId), gw), 0, "none")
            /\ UNCHANGED promotions
       ELSE /\ promotions' = [i \in Ids |->
                 IF i \in rows
                   THEN [promotions[i] EXCEPT !.status = "cancelled",
                                              !.cancelled_at = ISO(req[r].at)]
                   ELSE promotions[i]]
            /\ req' = [req EXCEPT ![r].pc = "feature"]
            /\ UNCHANGED res
  /\ UNCHANGED <<vendors, now, posts, mreq, mres>>

\* the patch of lines 268-273
CancelFeatured == [is_featured |-> FALSE, promotion_tier |-> Null, featured_until |-> Null]

\* lines 265-284: the featured-state write answers; its error is only logged
CancelFeature(r, gw) ==
  /\ req[r].op = "cancel" /\ req[r].pc = "feature"
  /\ IF gw = "ok"
       THEN vendors' = [vendors EXCEPT ![req[r].vendorId] = CancelFeatured]
       ELSE UNCHANGED vendors
  /\ Respond(r, "cancel", 200, "Promotion cancelled successfully", req[r].id,
             IF gw = "ok" THEN "none" ELSE "Error updating vendor profile")
  /\ UNCHANGED <<promotions, now, posts, mreq, mres>>

----------------------------------------------------------------------------
(* Requests of the posts router (src/unnamed/part_002) and of the admin    *)
(* router (src/unnamed/part_005)                                           *)

\* req.user of these routers: id and role
Anonymous == [id |-> NoUser, role |-> "none"]
Vloggers == { [id |-> "l1", role |-> "vlogger"] }
Admins == { [id |-> "a1", role |-> "admin"] }
Actors == Vloggers \cup Admins \cup {Anonymous}

\* request bodies of POST /api/vlogger-posts
PostBodies ==
  { [vendor_id |-> Str("v1"), post_title |-> Str("X"), post_description |-> Undef,
     post_url |-> Str("http://x"), platform |-> Str("YouTube")],
    [vendor_id |-> Str("v1"), post_title |-> Str(""), post_description |-> Str("d"),
     post_url |-> Str("http://x"), platform |-> Str("YouTube")] }

NoPostBody ==
  [vendor_id |-> Undef, post_title |-> Undef, post_description |-> Undef,
   post_url |-> Undef, platform |-> Undef]

\* request bodies of PATCH /:id/review
ReviewBodies ==
  { [status |-> Str("approved"), admin_notes |-> Str("good"), payout_amount |-> Str("500")],
    [status |-> Str("approved"), admin_notes |-> Undef, payout_amount |-> Num(0)],
    [status |-> Str("rejected"), admin_notes |-> Undef, payout_amount |-> Num(500)],
    [status |-> Str("pending"), admin_notes |-> Undef, payout_amount |-> Undef],
    [status |-> Undef, admin_notes |-> Undef, payout_amount |-> Undef] }

\* review bodies with a payout below zero as well
ReviewPayloads ==
  ReviewBodies \cup
    { [status |-> Str("approved"), admin_notes |-> Undef, payout_amount |-> Str("-5")] }

NoPatch == [status |-> Undef]

IdleModReq ==
  [op |-> "none", pc |-> "idle", user |-> NoUser, body |-> NoPostBody, file |-> FALSE,
   screenshotUrl |-> Null, id |-> 0, updateData |-> NoPatch, at |-> 0]

NoModResponse == [op |-> "none", status |-> 0, message |-> "", id |-> 0]

\* res.status(code).json({success, message, post})
ModRespond(r, op, code, message, id) ==
  /\ mreq' = [mreq EXCEPT ![r] = IdleModReq]
  /\ mres' = [op |-> op, status |-> code, message |-> message, id |-> id]

ModQuiet == \A r \in ModReqs : mreq[r].pc = "idle"

ModFree(r) ==
  /\ mreq[r].pc = "idle"
  /\ \A q \in ModReqs : q < r => mreq[q].pc # "idle"

PendingPostInserts == {r \in ModReqs : mreq[r].op = "submit"}

PostIds == 1..Len(posts)

----------------------------------------------------------------------------
(* POST /api/vlogger-posts *)

\* part_002 lines 69-98: identity, required fields, then the first call
SubmitBegin(r, user, body, file) ==
  /\ ModFree(r)
  /\ Len(posts) + Cardinality(PendingPostInserts) < MaxPosts
  /\ IF user.id = NoUser
       THEN ModRespond(r, "submit", 401, "Authentication required", 0)
     ELSE IF \/ Falsy(body.vendor_id) \/ Falsy(body.post_title)
             \/ Falsy(body.post_url) \/ Falsy(body.platform)
       THEN ModRespond(r, "submit", 400, "Vendor, title, URL, and platform are required", 0)
     ELSE /\ mreq' = [mreq EXCEPT ![r] =
              [IdleModReq EXCEPT !.op = "submit",
                                 !.pc = IF file THEN "upload" ELSE "insert",
                                 !.user = user.id, !.body = body, !.file = file,
                                 !.at = now]]
          /\ UNCHANGED mres
  /\ UNCHANGED <<promotions, vendors, now, req, res, posts>>

\* SubmitUpload that goes on to the insert when the upload failed
SubmitUploadUnchecked(r, gw) ==
  /\ mreq[r].op = "submit" /\ mreq[r].pc = "upload"
  /\ mreq' = [mreq EXCEPT ![r].pc = "insert",
                          ![r].screenshotUrl = IF gw = "ok" THEN Str("publicUrl") ELSE Null,
                          ![r].at = now]
  /\ UNCHANGED <<mres, promotions, vendors, now, req, res, posts>>

\* part_002 lines 98-122: the upload answers
SubmitUpload(r, gw) ==
  /\ mreq[r].op = "submit" /\ mreq[r].pc = "upload"
  /\ IF gw = "error"
       THEN ModRespond(r, "submit", 400, "Failed to upload screenshot", 0)
       ELSE /\ mreq' = [mreq EXCEPT ![r].pc = "insert",
                                    ![r].screenshotUrl = Str("publicUrl"),
                                    ![r].at = now]
            /\ UNCHANGED mres
  /\ UNCHANGED <<promotions, vendors, now, req, res, posts>>

\* NewPost that is born approved, with a payout
NewPostApproved(q) ==
  [vlogger_id |-> q.user,
   vendor_id |-> q.body.vendor_id,
   post_title |-> q.body.post_title,
   post_description |-> OrNull(q.body.post_description),
   screenshot_url |-> q.screenshotUrl,
   status |-> "approved",
   submitted_at |-> ISO(q.at),
   admin_notes |-> Null,
   payout_amount |-> Num(0),
   reviewed_at |-> Null,
   reviewed_by |-> Null]

\* the row of part_002 lines 128-138; the columns the insert does not name
\* take their default, null
NewPost(q) ==
  [vlogger_id |-> q.user,
   vendor_id |-> q.body.vendor_id,
   post_title |-> q.body.post_title,
   post_description |-> OrNull(q.body.post_description),
   screenshot_url |-> q.screenshotUrl,
   status |-> "pending",
   submitted_at |-> ISO(q.at),
   admin_notes |-> Null,
   payout_amount |-> Null,
   reviewed_at |-> Null,
   reviewed_by |-> Null]

\* part_002 lines 124-154: the insert answers
SubmitInsert(r, gw) ==
  /\ mreq[r].op = "submit" /\ mreq[r].pc = "insert"
  /\ IF gw = "error"
       THEN /\ ModRespond(r, "submit", 400, GatewayMessage, 0)
            /\ UNCHANGED posts
       ELSE /\ posts' = Append(posts, NewPost(mreq[r]))
            /\ ModRespond(r, "submit", 201,
                          "Post submitted successfully! Waiting for admin approval.",
                          Len(posts) + 1)
  /\ UNCHANGED <<promotions, vendors, now, req, res>>

----------------------------------------------------------------------------
(* PATCH /api/vlogger-posts/:id/review and PATCH /api/admin/posts/:id/review *)

\* UpdateData that takes the payout whatever the decision is
UpdateDataAnyDecision(body, adminId, at) ==
  [status |-> body.status,
   admin_notes |-> OrNull(body.admin_notes),
   reviewed_at |-> ISO(at),
   reviewed_by |-> Str(adminId),
   payout_amount |-> ParseFloat(body.payout_amount)]

\* part_002 lines 237-247: updateData
UpdateData(body, adminId, at) ==
  LET base == [status |-> body.status,
               admin_notes |-> OrNull(body.admin_notes),
               reviewed_at |-> ISO(at),
               reviewed_by |-> Str(adminId)]
  IN IF body.status = Str("approved") /\ ~Falsy(body.payout_amount)
       THEN [status |-> base.status, admin_notes |-> base.admin_notes,
             reviewed_at |-> base.reviewed_at, reviewed_by |-> base.reviewed_by,
             payout_amount |-> ParseFloat(body.payout_amount)]
       ELSE base

\* ReviewStart without the check of the decision value
ReviewStartUnvalidated(r, op, user, id, body) ==
  /\ ModFree(r)
  /\ IF user.role # "admin"
       THEN ModRespond(r, op, 403, "Admin access required", 0)
       ELSE /\ mreq' = [mreq EXCEPT ![r] =
                [IdleModReq EXCEPT !.op = op, !.pc = "update", !.user = user.id, !.id = id,
                                   !.updateData = UpdateData(body, user.id, now)]]
            /\ UNCHANGED mres
  /\ UNCHANGED <<promotions, vendors, now, req, res, posts>>

\* part_002 lines 215-247: role, decision value, then the update is built
ReviewStart(r, op, user, id, body) ==
  /\ ModFree(r)
  /\ IF user.role # "admin"
       THEN ModRespond(r, op, 403, "Admin access required", 0)
     ELSE IF body.status \notin {Str("approved"), Str("rejected")}
       THEN ModRespond(r, op, 400, "Status must be approved or rejected", 0)
     ELSE /\ mreq' = [mreq EXCEPT ![r] =
              [IdleModReq EXCEPT !.op = op, !.pc = "update", !.user = user.id, !.id = id,
                                 !.updateData = UpdateData(body, user.id, now)]]
          /\ UNCHANGED mres
  /\ UNCHANGED <<promotions, vendors, now, req, res, posts>>

\* .update(updateData): the columns the patch names change, the others stay
Patched(row, patch) ==
  [c \in DOMAIN row |->
     IF c = "status" THEN patch.status.s
     ELSE IF c \in DOMAIN patch THEN patch[c]
     ELSE row[c]]

\* part_002 lines 249-267: the update answers
ReviewFinish(r, op, gw) ==
  /\ mreq[r].op = op /\ mreq[r].pc = "update"
  /\ LET rows == Single({i \in PostIds : i = mreq[r].id}, gw) IN
     IF rows = {}
       THEN /\ ModRespond(r, op, 400,
                          ErrorMessage({i \in PostIds : i = mreq[r].id}, gw), 0)
            /\ UNCHANGED posts
       ELSE /\ posts' = [i \in PostIds |->
                 IF i \in rows THEN Patched(posts[i], mreq[r].updateData) ELSE posts[i]]
            /\ ModRespond(r, op, 200,
                          "Post " \o mreq[r].updateData.status.s \o " successfully",
                          mreq[r].id)
  /\ UNCHANGED <<promotions, vendors, now, req, res>>

\* the handler of the posts router, part_002 lines 215-276
ReviewBegin(r, user, id, body) == ReviewStart(r, "review", user, id, body)
ReviewUpdate(r, gw) == ReviewFinish(r, "review", gw)

\* the handler of the admin router, part_005 lines 129-190: the same code
AdminReviewBegin(r, user, id, body) == ReviewStart(r, "adminReview", user, id, body)
AdminReviewUpdate(r, gw) == ReviewFinish(r, "adminReview", gw)

----------------------------------------------------------------------------
(* GET /api/vendor-promotions and GET /api/admin/promotions *)

\* .order('created_at', { ascending: false }): the newest row first
NewestFirst(rows) == [k \in 1..Len(rows) |-> rows[Len(rows) + 1 - k]]

\* res.json({success: true, promotions}): the rows go out as they were read
ListRespond(r, op, rows) ==
  /\ req' = [req EXCEPT ![r] = IdleReq]
  /\ res' = [op |-> op, status |-> 200, message |-> "", id |-> 0, logged |-> "none",
             promotions |-> rows]

\* vendor-promotions.js lines 8-17: identity, then the select
ListBegin(r, user) ==
  /\ Free(r)
  /\ IF user = NoUser
       THEN Respond(r, "list", 401, "Authentication required", 0, "none")
       ELSE /\ req' = [req EXCEPT ![r] =
                [IdleReq EXCEPT !.op = "list", !.pc = "select", !.vendorId = user]]
            /\ UNCHANGED res
  /\ UNCHANGED <<promotions, vendors, now, posts, mreq, mres>>

\* vendor-promotions.js lines 19-35: the select answers
ListSelect(r, gw) ==
  /\ req[r].op = "list" /\ req[r].pc = "select"
  /\ IF gw = "error"
       THEN Respond(r, "list", 400, GatewayMessage, 0, "none")
       ELSE ListRespond(r, "list",
              NewestFirst(SelectSeq(promotions, LAMBDA p : p.vendor_id = req[r].vendorId)))
  /\ UNCHANGED <<promotions, vendors, now, posts, mreq, mres>>

\* part_005 lines 269-278: role, then the select
AdminListBegin(r, user) ==
  /\ Free(r)
  /\ IF user.role # "admin"
       THEN Respond(r, "adminList", 403, "Admin access required", 0, "none")
       ELSE /\ req' = [req EXCEPT ![r] =
                [IdleReq EXCEPT !.op = "adminList", !.pc = "select", !.vendorId = user.id]]
            /\ UNCHANGED res
  /\ UNCHANGED <<promotions, vendors, now, posts, mreq, mres>>

\* part_005 lines 280-297: the select answers with every row (the joined
\* vendors(name, location) is no part of the ledger)
AdminListSelect(r, gw) ==
  /\ req[r].op = "adminList" /\ req[r].pc = "select"
  /\ IF gw = "error"
       THEN Respond(r, "adminList", 400, GatewayMessage, 0, "none")
       ELSE ListRespond(r, "adminList", NewestFirst(promotions))
  /\ UNCHANGED <<promotions, vendors, now, posts, mreq, mres>>

----------------------------------------------------------------------------
(* GET /api/vendor-promotions/packages *)

\* the array of vendor-promotions.js lines 171-216
Packages ==
  << [id |-> "basic", name |-> "Basic Boost", price |-> 2999, duration |-> "1 Month",
      features |-> <<"Featured in search results", "Homepage banner (2 days)",
                     "Social media mentions", "Basic analytics">>,
      color |-> "blue", popular |-> FALSE],
     [id |-> "premium", name |-> "Premium Push", price |-> 7999, duration |-> "3 Months",
      features |-> <<"Top search placement", "Homepage banner (1 week)",
                     "Vlogger collaboration priority", "Advanced analytics",
                     "Customer review highlights">>,
      color |-> "orange", popular |-> TRUE],
     [id |-> "ultimate", name |-> "Ultimate Exposure", price |-> 19999,
      duration |-> "6 Months",
      features |-> <<"Premium placement everywhere", "Dedicated promotion page",
                     "Guaranteed vlogger partnerships", "Complete analytics suite",
                     "Personal account manager">>,
      color |-> "purple", popular |-> FALSE] >>

\* ListPackages that leaves out the packages some promotion of the ledger
\* holds active
ListPackagesOnOffer(r) ==
  /\ Free(r)
  /\ res' = [op |-> "packages", status |-> 200, message |-> "", id |-> 0,
             logged |-> "none",
             packages |-> SelectSeq(Packages, LAMBDA p :
                            \A i \in Ids : promotions[i].status = "active"
                                             => promotions[i].package_id # Str(p.id))]
  /\ UNCHANGED <<req, promotions, vendors, now, posts, mreq, mres>>

\* lines 169-222: no identity is asked for and nothing is awaited: the
\* handler answers in the step it starts in
ListPackages(r) ==
  /\ Free(r)
  /\ res' = [op |-> "packages", status |-> 200, message |-> "", id |-> 0,
             logged |-> "none", packages |-> Packages]
  /\ UNCHANGED <<req, promotions, vendors, now, posts, mreq, mres>>

----------------------------------------------------------------------------
(* PUT /api/vendors/:id *)

\* request bodies of the vendor update: a new name; the three featured
\* columns; an id and a rating next to is_featured
VendorBodies ==
  { [name |-> Str("New name")],
    [is_featured |-> TRUE, promotion_tier |-> Str("ultimate"),
     featured_until |-> ISO(400)],
    [id |-> Str("v2"), rating |-> Num(5), is_featured |-> FALSE] }

\* the three deletes of lines 517-520
Cleaned(updateData) ==
  [c \in DOMAIN updateData \ {"id", "created_at", "rating"} |-> updateData[c]]

\* .update({...updateData, updated_at}) on a vendor row: of the columns the
\* patch names, those of the featured state are the ones the model holds
VendorPatched(row, patch) ==
  [c \in DOMAIN row |-> IF c \in DOMAIN patch THEN patch[c] ELSE row[c]]

\* lines 512-520: no identity is asked for; the patch is built
VendorUpdateBegin(r, id, body) ==
  /\ Free(r)
  /\ req' = [req EXCEPT ![r] =
       [IdleReq EXCEPT !.op = "vendorUpdate", !.pc = "update",
                       !.vendorId = id, !.body = Cleaned(body)]]
  /\ UNCHANGED <<res, promotions, vendors, now, posts, mreq, mres>>

\* lines 522-543: the update answers
VendorUpdate(r, gw) ==
  /\ req[r].op = "vendorUpdate" /\ req[r].pc = "update"
  /\ IF gw = "error" \/ req[r].vendorId \notin Vendors
       THEN /\ Respond(r, "vendorUpdate", 400,
                       ErrorMessage({v \in Vendors : v = req[r].vendorId}, gw), 0, "none")
            /\ UNCHANGED vendors
       ELSE /\ vendors' = [vendors EXCEPT ![req[r].vendorId] =
                             VendorPatched(vendors[req[r].vendorId], req[r].body)]
            /\ Respond(r, "vendorUpdate", 200, "Vendor updated successfully", 0, "none")
  /\ UNCHANGED <<promotions, now, posts, mreq, mres>>

----------------------------------------------------------------------------
(* Time passes *)

Tick ==
  /\ \E d \in Instants : d > now /\ now' = d
  /\ UNCHANGED <<promotions, vendors, req, res, posts, mreq, mres>>

----------------------------------------------------------------------------
(* Specifications *)

Init ==
  /\ promotions = <<>>
  /\ vendors = [v \in Vendors |-> CancelFeatured]
  /\ now = 30
  /\ req = [r \in Reqs |-> IdleReq]
  /\ res = NoResponse
  /\ posts = <<>>
  /\ mreq = [r \in ModReqs |-> IdleModReq]
  /\ mres = NoModResponse

\* the promotions router, requests served one at a time, the gateway up
NextSeq ==
  \/ \E r \in Reqs, u \in Users, b \in Bodies : Quiet /\ PurchaseBegin(r, u, b)
  \/ \E r \in Reqs : PurchaseLookup(r, "ok")
  \/ \E r \in Reqs : PurchaseInsert(r, "ok")
  \/ \E r \in Reqs : PurchaseFeature(r, "ok")
  \/ \E r \in Reqs, u \in Users, id \in 1..MaxPromos : Quiet /\ CancelBegin(r, u, id)
  \/ \E r \in Reqs : CancelUpdate(r, "ok")
  \/ \E r \in Reqs : CancelFeature(r, "ok")
  \/ Tick

SpecSeq == Init /\ [][NextSeq]_vars

\* the promotions router, requests served one at a time, gateway calls may fail
NextFail ==
  \/ \E r \in Reqs, u \in Users, b \in Bodies : Quiet /\ PurchaseBegin(r, u, b)
  \/ \E r \in Reqs, gw \in Gateway : PurchaseLookup(r, gw)
  \/ \E r \in Reqs, gw \in Gateway : PurchaseInsert(r, gw)
  \/ \E r \in Reqs, gw \in Gateway : PurchaseFeature(r, gw)
  \/ \E r \in Reqs, u \in Users, id \in 1..MaxPromos : Quiet /\ CancelBegin(r, u, id)
  \/ \E r \in Reqs, gw \in Gateway : CancelUpdate(r, gw)
  \/ \E r \in Reqs, gw \in Gateway : CancelFeature(r, gw)
  \/ Tick

SpecFail == Init /\ [][NextFail]_vars

\* the promotions router, requests interleaved at their awaits, the gateway up
NextConc ==
  \/ \E r \in Reqs, u \in Users, b \in Bodies : PurchaseBegin(r, u, b)
  \/ \E r \in Reqs : PurchaseLookup(r, "ok")
  \/ \E r \in Reqs : PurchaseInsert(r, "ok")
  \/ \E r \in Reqs : PurchaseFeature(r, "ok")
  \/ \E r \in Reqs, u \in Users, id \in 1..MaxPromos : CancelBegin(r, u, id)
  \/ \E r \in Reqs : CancelUpdate(r, "ok")
  \/ \E r \in Reqs : CancelFeature(r, "ok")
  \/ Quiet /\ Tick

SpecConc == Init /\ [][NextConc]_vars

\* the posts and admin routers, requests served one at a time, gateway calls
\* may fail
NextQueue ==
  \/ \E r \in ModReqs, u \in Vloggers \cup {Anonymous}, b \in PostBodies, f \in BOOLEAN :
       ModQuiet /\ SubmitBegin(r, u, b, f)
  \/ \E r \in ModReqs, gw \in Gateway : SubmitUpload(r, gw)
  \/ \E r \in ModReqs, gw \in Gateway : SubmitInsert(r, gw)
  \/ \E r \in ModReqs, u \in Actors, id \in 1..MaxPosts, b \in ReviewBodies :
       ModQuiet /\ ReviewBegin(r, u, id, b)
  \/ \E r \in ModReqs, gw \in Gateway : ReviewUpdate(r, gw)
  \/ \E r \in ModReqs, u \in Actors, id \in 1..MaxPosts, b \in ReviewBodies :
       ModQuiet /\ AdminReviewBegin(r, u, id, b)
  \/ \E r \in ModReqs, gw \in Gateway : AdminReviewUpdate(r, gw)

SpecQueue == Init /\ [][NextQueue]_vars

\* the moderation queue with the gateway up: posts submitted without a
\* screenshot, reviews through both endpoints with every payload
NextReview ==
  \/ \E r \in ModReqs, u \in Vloggers, b \in PostBodies :
       ModQuiet /\ SubmitBegin(r, u, b, FALSE)
  \/ \E r \in ModReqs : SubmitInsert(r, "ok")
  \/ \E r \in ModReqs, u \in Actors, id \in 1..MaxPosts, b \in ReviewPayloads :
       ModQuiet /\ ReviewBegin(r, u, id, b)
  \/ \E r \in ModReqs : ReviewUpdate(r, "ok")
  \/ \E r \in ModReqs, u \in Actors, id \in 1..MaxPosts, b \in ReviewPayloads :
       ModQuiet /\ AdminReviewBegin(r, u, id, b)
  \/ \E r \in ModReqs : AdminReviewUpdate(r, "ok")

SpecReview == Init /\ [][NextReview]_vars

\* the ledger served one request at a time with the gateway up, read through
\* the two lists, whose select may fail
NextRead ==
  \/ \E r \in Reqs, u \in Users, b \in Bodies : Quiet /\ PurchaseBegin(r, u, b)
  \/ \E r \in Reqs : PurchaseLookup(r, "ok")
  \/ \E r \in Reqs : PurchaseInsert(r, "ok")
  \/ \E r \in Reqs : PurchaseFeature(r, "ok")
  \/ \E r \in Reqs, u \in Users : Quiet /\ ListBegin(r, u)
  \/ \E r \in Reqs, gw \in Gateway : ListSelect(r, gw)
  \/ \E r \in Reqs, u \in Actors : Quiet /\ AdminListBegin(r, u)
  \/ \E r \in Reqs, gw \in Gateway : AdminListSelect(r, gw)
  \/ Tick

SpecRead == Init /\ [][NextRead]_vars

\* a run uses one of the two routers: the other one is as Init left it
LedgerUntouched == promotions = <<>> /\ res = NoResponse /\ Quiet
QueueUntouched == posts = <<>> /\ mres = NoModResponse /\ ModQuiet

\* either router, requests served one at a time, where the primary write of
\* each operation (insert or update) may fail and every other call succeeds
NextWrites ==
  \/ \E r \in Reqs, u \in Users, b \in Bodies :
       QueueUntouched /\ Quiet /\ PurchaseBegin(r, u, b)
  \/ \E r \in Reqs : PurchaseLookup(r, "ok")
  \/ \E r \in Reqs, gw \in Gateway : PurchaseInsert(r, gw)
  \/ \E r \in Reqs : PurchaseFeature(r, "ok")
  \/ \E r \in Reqs, u \in Users, id \in 1..MaxPromos :
       QueueUntouched /\ Quiet /\ CancelBegin(r, u, id)
  \/ \E r \in Reqs, gw \in Gateway : CancelUpdate(r, gw)
  \/ \E r \in Reqs : CancelFeature(r, "ok")
  \/ \E r \in ModReqs, u \in Vloggers, b \in PostBodies :
       LedgerUntouched /\ ModQuiet /\ SubmitBegin(r, u, b, FALSE)
  \/ \E r \in ModReqs, gw \in Gateway : SubmitInsert(r, gw)
  \/ \E r \in ModReqs, u \in Actors, id \in 1..MaxPosts, b \in ReviewBodies :
       LedgerUntouched /\ ModQuiet /\ ReviewBegin(r, u, id, b)
  \/ \E r \in ModReqs, gw \in Gateway : ReviewUpdate(r, gw)
  \/ \E r \in ModReqs, u \in Actors, id \in 1..MaxPosts, b \in ReviewBodies :
       LedgerUntouched /\ ModQuiet /\ AdminReviewBegin(r, u, id, b)
  \/ \E r \in ModReqs, gw \in Gateway : AdminReviewUpdate(r, gw)

SpecWrites == Init /\ [][NextWrites]_vars

\* purchases with every body, catalog or not, one at a time, the gateway up
NextOrder ==
  \/ \E r \in Reqs, u \in Users, b \in Bodies \cup OddBodies :
       Quiet /\ PurchaseBegin(r, u, b)
  \/ \E r \in Reqs : PurchaseLookup(r, "ok")
  \/ \E r \in Reqs : PurchaseInsert(r, "ok")
  \/ \E r \in Reqs : PurchaseFeature(r, "ok")
  \/ Tick

SpecOrder == Init /\ [][NextOrder]_vars

\* purchases with the gateway up, then submissions whose upload and insert
\* may fail: posts arrive while the ledger holds promotions
NextSubmit ==
  \/ \E r \in Reqs, u \in Users, b \in Bodies :
       QueueUntouched /\ Quiet /\ PurchaseBegin(r, u, b)
  \/ \E r \in Reqs : PurchaseLookup(r, "ok")
  \/ \E r \in Reqs : PurchaseInsert(r, "ok")
  \/ \E r \in Reqs : PurchaseFeature(r, "ok")
  \/ \E r \in ModReqs, u \in Vloggers \cup {Anonymous}, b \in PostBodies, f \in BOOLEAN :
       Quiet /\ ModQuiet /\ SubmitBegin(r, u, b, f)
  \/ \E r \in ModReqs, gw \in Gateway : SubmitUpload(r, gw)
  \/ \E r \in ModReqs, gw \in Gateway : SubmitInsert(r, gw)

SpecSubmit == Init /\ [][NextSubmit]_vars

\* the promotions router with its catalog, requests served one at a time, the
\* gateway up
NextCatalog ==
  \/ \E r \in Reqs, u \in Users, b \in Bodies : Quiet /\ PurchaseBegin(r, u, b)
  \/ \E r \in Reqs : PurchaseLookup(r, "ok")
  \/ \E r \in Reqs : PurchaseInsert(r, "ok")
  \/ \E r \in Reqs : PurchaseFeature(r, "ok")
  \/ \E r \in Reqs, u \in Users, id \in 1..MaxPromos : Quiet /\ CancelBegin(r, u, id)
  \/ \E r \in Reqs : CancelUpdate(r, "ok")
  \/ \E r \in Reqs : CancelFeature(r, "ok")
  \/ \E r \in Reqs : Quiet /\ ListPackages(r)
  \/ Tick

SpecCatalog == Init /\ [][NextCatalog]_vars

\* the review bodies of one approval and of a missing decision
GateReviews == {b \in ReviewBodies : b.status = Undef \/ b.admin_notes = Str("good")}

\* either router with every caller, requests served one at a time, the
\* gateway up
NextGate ==
  \/ \E r \in Reqs, u \in Users, b \in Bodies :
       QueueUntouched /\ Quiet /\ PurchaseBegin(r, u, b)
  \/ \E r \in Reqs : PurchaseLookup(r, "ok")
  \/ \E r \in Reqs : PurchaseInsert(r, "ok")
  \/ \E r \in Reqs : PurchaseFeature(r, "ok")
  \/ \E r \in Reqs, u \in Users, id \in 1..MaxPromos :
       QueueUntouched /\ Quiet /\ CancelBegin(r, u, id)
  \/ \E r \in Reqs : CancelUpdate(r, "ok")
  \/ \E r \in Reqs : CancelFeature(r, "ok")
  \/ \E r \in ModReqs, u \in Vloggers \cup {Anonymous}, b \in PostBodies, f \in BOOLEAN :
       LedgerUntouched /\ ModQuiet /\ SubmitBegin(r, u, b, f)
  \/ \E r \in ModReqs : SubmitUpload(r, "ok")
  \/ \E r \in ModReqs : SubmitInsert(r, "ok")
  \/ \E r \in ModReqs, u \in Actors, id \in 1..MaxPosts, b \in GateReviews :
       LedgerUntouched /\ ModQuiet /\ ReviewBegin(r, u, id, b)
  \/ \E r \in ModReqs : ReviewUpdate(r, "ok")
  \/ \E r \in ModReqs, u \in Actors, id \in 1..MaxPosts, b \in GateReviews :
       LedgerUntouched /\ ModQuiet /\ AdminReviewBegin(r, u, id, b)
  \/ \E r \in ModReqs : AdminReviewUpdate(r, "ok")

SpecGate == Init /\ [][NextGate]_vars

\* the bodies of the interleaved runs: one package, one approval and one
\* rejection
FrameBodies == {b \in Bodies : b.package_id = Str("basic")}
FrameReviews ==
  {b \in ReviewBodies : b.admin_notes = Str("good") \/ b.status = Str("rejected")}

\* either router, the steps of the requests of different vendors, vloggers
\* and admins interleaved, the gateway up; a vendor has one request in
\* progress at a time, cancels name promotions the ledger holds, reviews come
\* through the posts router
NextFrame ==
  \/ \E r \in Reqs, u \in Vendors, b \in FrameBodies :
       QueueUntouched /\ Settled(u) /\ PurchaseBegin(r, u, b)
  \/ \E r \in Reqs : PurchaseLookup(r, "ok")
  \/ \E r \in Reqs : PurchaseInsert(r, "ok")
  \/ \E r \in Reqs : PurchaseFeature(r, "ok")
  \/ \E r \in Reqs, u \in Vendors, id \in Ids :
       QueueUntouched /\ Settled(u) /\ CancelBegin(r, u, id)
  \/ \E r \in Reqs : CancelUpdate(r, "ok")
  \/ \E r \in Reqs : CancelFeature(r, "ok")
  \/ \E r \in ModReqs, u \in Vloggers, b \in PostBodies :
       LedgerUntouched /\ SubmitBegin(r, u, b, FALSE)
  \/ \E r \in ModReqs : SubmitInsert(r, "ok")
  \/ \E r \in ModReqs, u \in Admins, id \in 1..MaxPosts, b \in FrameReviews :
       LedgerUntouched /\ ReviewBegin(r, u, id, b)
  \/ \E r \in ModReqs : ReviewUpdate(r, "ok")

SpecFrame == Init /\ [][NextFrame]_vars

\* purchases with the gateway up and updates of vendor profiles, which may
\* fail or name no vendor, one request at a time
NextVendor ==
  \/ \E r \in Reqs, u \in Users, b \in Bodies : Quiet /\ PurchaseBegin(r, u, b)
  \/ \E r \in Reqs : PurchaseLookup(r, "ok")
  \/ \E r \in Reqs : PurchaseInsert(r, "ok")
  \/ \E r \in Reqs : PurchaseFeature(r, "ok")
  \/ \E r \in Reqs, id \in Vendors \cup {"v9"}, b \in VendorBodies :
       Quiet /\ VendorUpdateBegin(r, id, b)
  \/ \E r \in Reqs, gw \in Gateway : VendorUpdate(r, gw)

SpecVendor == Init /\ [][NextVendor]_vars

----------------------------------------------------------------------------
(* Properties *)

\* the promotions of vendor v that are active and whose end_date lies ahead
LiveOf(v) == {i \in ActiveOf(v) : promotions[i].end_date.v > now}

\* C1: requests served one at a time from an empty ledger, every gateway
\* call succeeding: each vendor has at most one promotion whose status is
\* active.
C1_AtMostOneActive == \A v \in Vendors : Cardinality(ActiveOf(v)) <= 1

\* C1 witness: a vendor has bought, cancelled and bought again; the ledger
\* holds a cancelled and an active promotion of that vendor.
C1_Witness ==
  \E v \in Vendors, i, j \in Ids :
    /\ promotions[i].vendor_id = v /\ promotions[i].status = "cancelled"
    /\ promotions[j].vendor_id = v /\ promotions[j].status = "active"
    /\ res.op = "purchase" /\ res.status = 201 /\ res.id = j

\* C2 (as claimed): when the lookup of a Purchase answers while the vendor has
\* a promotion with status active, the Purchase is rejected with the conflict
\* response (400), and neither the ledger nor any featured-state changes.
C2_ConflictRejected ==
  [][\A r \in Reqs :
       (/\ req[r].op = "purchase" /\ req[r].pc = "lookup"
        /\ req'[r].pc # "lookup"
        /\ ActiveOf(req[r].vendorId) # {})
       => (/\ req'[r].pc = "idle"
           /\ res'.op = "purchase" /\ res'.status = 400
           /\ res'.message =
                "You already have an active promotion. Please wait for it to expire."
           /\ promotions' = promotions /\ vendors' = vendors)]_vars

\* C3 (as claimed): in every state reached by interleaving the steps of
\* concurrent requests, no vendor has two promotions with status active.
C3_OneActiveInterleaved ==
  \A v \in Vendors : \A i, j \in ActiveOf(v) : i = j

\* C4 (as claimed): the update of a Cancel by the owner of a promotion whose
\* status is already cancelled is rejected with the conflict response (400)
\* and leaves the ledger and the featured-states as they were.
C4_RecancelRejected ==
  [][\A r \in Reqs :
       (/\ req[r].op = "cancel" /\ req[r].pc = "update"
        /\ req'[r].pc # "update"
        /\ \E i \in CancelRows(req[r].id, req[r].vendorId) :
             promotions[i].status = "cancelled")
       => (/\ req'[r].pc = "idle"
           /\ res'.op = "cancel" /\ res'.status = 400
           /\ promotions' = promotions /\ vendors' = vendors)]_vars

\* C5 (as claimed): a Cancel whose id names no promotion of the caller (no
\* such row, or a row of another vendor) is answered NotFound (404) and
\* leaves every promotion and every featured-state as it was.
C5_CancelNotFound ==
  [][\A r \in Reqs :
       (/\ req[r].op = "cancel" /\ req[r].pc = "update"
        /\ req'[r].pc # "update"
        /\ CancelRows(req[r].id, req[r].vendorId) = {})
       => (/\ req'[r].pc = "idle"
           /\ res'.op = "cancel" /\ res'.status = 404
           /\ promotions' = promotions /\ vendors' = vendors)]_vars

\* C6 (as claimed): the status of a post changes at most once; a post whose
\* status is approved or rejected keeps its status, payout_amount,
\* admin_notes, reviewed_at and reviewed_by for ever, whichever review
\* endpoint is called.
C6_ReviewedOnce ==
  [][\A i \in PostIds : posts[i].status # "pending" => posts'[i] = posts[i]]_vars

\* C7 (as claimed): every post that has a payout_amount has status approved.
C7_PayoutOnlyApproved ==
  \A i \in PostIds : posts[i].payout_amount # Null => posts[i].status = "approved"

\* C8 (as claimed): a vendor that is featured, with no request of its own in
\* progress, has an active promotion whose end_date lies ahead.
C8_FeaturedHasLive ==
  \A v \in Vendors :
    (vendors[v].is_featured /\ Settled(v)) => LiveOf(v) # {}

\* C9 (as claimed): requests served one at a time, every gateway write
\* succeeding: between requests, a vendor with an active promotion whose
\* end_date lies ahead is featured, with that promotion's package and
\* end_date.
C9_LiveIsFeatured ==
  Quiet =>
    \A v \in Vendors : \A i \in LiveOf(v) :
      vendors[v] = [is_featured |-> TRUE,
                    promotion_tier |-> promotions[i].package_id,
                    featured_until |-> promotions[i].end_date]

\* C10: the step in which the featured-state write of a Purchase or of a
\* Cancel succeeds leaves the vendor's featured-state as the projection of the
\* transition: of the inserted ledger row (featured, its package_id, its
\* end_date) after Purchase, not featured and both fields null after Cancel.
C10_FeaturedProjection ==
  [][\A r \in Reqs :
       (req[r].pc = "feature" /\ req'[r].pc = "idle" /\ res'.logged = "none")
       => vendors'[req[r].vendorId] =
            IF req[r].op = "purchase"
              THEN [is_featured |-> TRUE,
                    promotion_tier |-> promotions[req[r].id].package_id,
                    featured_until |-> promotions[req[r].id].end_date]
              ELSE [is_featured |-> FALSE, promotion_tier |-> Null,
                    featured_until |-> Null]]_vars

\* C10 witness: a Purchase has answered 201 with its featured-state write
\* made, after an earlier Cancel of the same vendor reset the featured-state:
\* the vendor is featured with the new row's package and end_date.
C10_Witness ==
  /\ res.op = "purchase" /\ res.status = 201 /\ res.logged = "none"
  /\ res.id \in Ids
  /\ \E j \in Ids : /\ promotions[j].vendor_id = promotions[res.id].vendor_id
                    /\ promotions[j].status = "cancelled"
  /\ vendors[promotions[res.id].vendor_id] =
       [is_featured |-> TRUE,
        promotion_tier |-> promotions[res.id].package_id,
        featured_until |-> promotions[res.id].end_date]

\* the columns a review fills
Unreviewed(p) ==
  /\ p.status = "pending"
  /\ p.admin_notes = Null /\ p.payout_amount = Null
  /\ p.reviewed_at = Null /\ p.reviewed_by = Null

\* C11: a Review by an admin, through either endpoint, whose decision is not
\* "approved" or "rejected" (a missing decision included) is answered 400
\* "Status must be approved or rejected" at once: the request ends there, no
\* update is issued and every post is as it was.
C11_InvalidDecisionRejected ==
  [][\A r \in ModReqs, u \in Admins, id \in 1..MaxPosts, b \in ReviewPayloads :
       (/\ b.status \notin {Str("approved"), Str("rejected")}
        /\ ReviewBegin(r, u, id, b) \/ AdminReviewBegin(r, u, id, b))
       => (/\ mres'.status = 400
           /\ mres'.message = "Status must be approved or rejected"
           /\ mreq'[r].pc = "idle"
           /\ posts' = posts)]_vars

\* C11 witness: a Review was answered 400 for its decision value while a
\* post is pending with none of the review columns set.
C11_Witness ==
  /\ mres.op \in {"review", "adminReview"} /\ mres.status = 400
  /\ mres.message = "Status must be approved or rejected"
  /\ \E i \in PostIds : Unreviewed(posts[i])

\* C12: the update a Review with decision rejected issues names status,
\* admin_notes, reviewed_at and reviewed_by only, and the step in which it
\* answers leaves the payout_amount of every post as it was.
C12_RejectedWritesNoPayout ==
  [][\A r \in ModReqs :
       (/\ mreq[r].pc = "update" /\ mreq'[r].pc = "idle"
        /\ mreq[r].updateData.status = Str("rejected"))
       => (/\ DOMAIN mreq[r].updateData =
                {"status", "admin_notes", "reviewed_at", "reviewed_by"}
           /\ \A i \in PostIds : posts'[i].payout_amount = posts[i].payout_amount)]_vars

\* C12 witness: a Review with decision rejected (its body carried a
\* payout_amount of 500) has answered 200 and the post has no payout_amount.
C12_Witness ==
  /\ mres.status = 200 /\ mres.message = "Post rejected successfully"
  /\ mres.id \in PostIds
  /\ posts[mres.id].status = "rejected"
  /\ posts[mres.id].payout_amount = Null

\* the amount a review body asks to be paid, as a number
PayoutAsked(b) == ParseFloat(b.payout_amount)

\* an approving Review by an admin whose body carries an amount of zero or more
\* leaves with an update that carries that amount
ApprovalCarriesPayout ==
  \A r \in ModReqs, u \in Admins, id \in 1..MaxPosts, b \in ReviewPayloads :
    (/\ b.status = Str("approved")
     /\ PayoutAsked(b).t = "number" /\ PayoutAsked(b).v >= 0
     /\ ReviewBegin(r, u, id, b) \/ AdminReviewBegin(r, u, id, b))
    => (/\ mreq'[r].pc = "update"
        /\ "payout_amount" \in DOMAIN mreq'[r].updateData
        /\ mreq'[r].updateData.payout_amount = PayoutAsked(b))

\* an approving update answered 200 on a pending post stores the decision, the
\* admin and the amount the update carries
ApprovalStored ==
  \A r \in ModReqs :
    (/\ mreq[r].pc = "update" /\ mreq'[r].pc = "idle" /\ mres'.status = 200
     /\ mreq[r].updateData.status = Str("approved")
     /\ mreq[r].id \in PostIds /\ posts[mreq[r].id].status = "pending")
    => (/\ posts'[mreq[r].id].status = "approved"
        /\ posts'[mreq[r].id].reviewed_by = Str(mreq[r].user)
        /\ "payout_amount" \in DOMAIN mreq[r].updateData
             => posts'[mreq[r].id].payout_amount = mreq[r].updateData.payout_amount)

NoNegativePayout(ps) ==
  \A i \in DOMAIN ps : ps[i].payout_amount.t = "number" => ps[i].payout_amount.v >= 0

\* C13: an approving Review with payout_amount p >= 0 (p = 0 included) on a
\* pending post stores status approved, the admin's id as reviewed_by and p as
\* payout_amount; and no step leaves a post with a payout_amount below zero.
C13_PayoutStored ==
  [][ApprovalCarriesPayout /\ ApprovalStored /\ NoNegativePayout(posts')]_vars

\* C14: a list answered by GET /api/vendor-promotions or by the admin list
\* presents no promotion as active whose end_date is at or before the time of
\* the read.
C14_ListsHideExpired ==
  [][\A r \in Reqs :
       (/\ req[r].op \in {"list", "adminList"} /\ req[r].pc = "select"
        /\ req'[r].pc = "idle" /\ res'.status = 200)
       => \A k \in DOMAIN res'.promotions :
            res'.promotions[k].status = "active" => res'.promotions[k].end_date.v > now]_vars

\* C15: when the featured-state write of a Purchase or of a Cancel fails
\* after the ledger write went through, the operation still answers success
\* (201, 200) with the promotion it committed; the step leaves the ledger as
\* it was, the row keeps the status the ledger write gave it, and the request
\* is over, so it writes nothing more.
C15_FeaturedFailureKeepsLedger ==
  [][\A r \in Reqs :
       (PurchaseFeature(r, "error") \/ CancelFeature(r, "error"))
       => (/\ res'.status = (IF req[r].op = "purchase" THEN 201 ELSE 200)
           /\ res'.id = req[r].id
           /\ promotions' = promotions
           /\ promotions[req[r].id].status =
                (IF req[r].op = "purchase" THEN "active" ELSE "cancelled")
           /\ req'[r].pc = "idle")]_vars

\* C15 witness: a Purchase answered 201 although its featured-state write
\* failed: the row is active and its vendor is not featured.
C15_Witness ==
  /\ res.op = "purchase" /\ res.status = 201
  /\ res.logged = "Error updating vendor profile"
  /\ res.id \in Ids
  /\ promotions[res.id].status = "active"
  /\ ~vendors[promotions[res.id].vendor_id].is_featured

\* C16: when the primary write of an operation fails (the insert of Purchase,
\* the update of Cancel, the insert of Submit, the update of Review), the
\* operation answers with a failure status, every promotion and every post is
\* as it was, the featured state is as it was, and the request is over, so no
\* featured-state write follows.
C16_PrimaryFailureAborts ==
  [][/\ \A r \in Reqs :
          (PurchaseInsert(r, "error") \/ CancelUpdate(r, "error"))
          => (/\ res'.status = 400 /\ res'.message = GatewayMessage
              /\ promotions' = promotions /\ vendors' = vendors
              /\ req'[r].pc = "idle")
     /\ \A r \in ModReqs :
          (SubmitInsert(r, "error") \/ ReviewUpdate(r, "error")
             \/ AdminReviewUpdate(r, "error"))
          => (/\ mres'.status = 400 /\ mres'.message = GatewayMessage
              /\ posts' = posts /\ vendors' = vendors
              /\ mreq'[r].pc = "idle")]_vars

\* C16 witness: the update of a Cancel failed: the answer is 400 with the
\* gateway's message, the promotion is still active and its vendor still
\* featured.
C16_Witness ==
  /\ res.op = "cancel" /\ res.status = 400 /\ res.message = GatewayMessage
  /\ Len(promotions) = 1 /\ promotions[1].status = "active"
  /\ vendors[promotions[1].vendor_id].is_featured

\* the months a package_duration of the catalog stands for
DurationMonths(s) ==
  CASE s = Str("1 Month") -> 1 [] s = Str("3 Months") -> 3 [] s = Str("6 Months") -> 6

\* calendar months since year 0
MonthIndex(d) == getFullYear(d) * 12 + getMonth(d)

\* C17: the end_date of every promotion of 1, 3 or 6 months lies in the
\* calendar month exactly that many months after the month of its start_date,
\* whatever the day of the month it starts on.
C17_EndInTargetMonth ==
  \A i \in Ids :
    promotions[i].package_duration \in {Str("1 Month"), Str("3 Months"), Str("6 Months")}
    => MonthIndex(promotions[i].end_date.v) =
         MonthIndex(promotions[i].start_date.v)
           + DurationMonths(promotions[i].package_duration)

\* a body whose duration is of the catalog and whose price is a number above 0
WellFormedOrder(b) ==
  /\ b.package_duration \in {Str("1 Month"), Str("3 Months"), Str("6 Months")}
  /\ ParseFloat(b.package_price).t = "number"
  /\ ParseFloat(b.package_price).v > 0

\* C18: a Purchase by a vendor whose duration is not 1, 3 or 6 months, or
\* whose price is not a number above zero, is answered 400 at once: the
\* request ends there, so no promotion is created and no featured state is
\* written.
C18_MalformedOrderRejected ==
  [][\A r \in Reqs, u \in Vendors, b \in Bodies \cup OddBodies :
       (~WellFormedOrder(b) /\ PurchaseBegin(r, u, b))
       => (/\ res'.status = 400
           /\ req'[r].pc = "idle"
           /\ promotions' = promotions /\ vendors' = vendors)]_vars

\* the update of a Cancel that began when the end_date of its promotion had
\* passed is answered with a failure and changes no promotion
ExpiredNotCancelled ==
  \A r \in Reqs :
    (/\ req[r].op = "cancel" /\ req[r].pc = "update" /\ req'[r].pc # "update"
     /\ req[r].id \in Ids
     /\ promotions[req[r].id].vendor_id = req[r].vendorId
     /\ promotions[req[r].id].status = "active"
     /\ promotions[req[r].id].end_date.v <= req[r].at)
    => (/\ promotions' = promotions
        /\ req'[r].pc = "idle" /\ res'.status >= 400)

\* a cancelled promotion stays cancelled
CancelledStays ==
  \A i \in Ids : promotions[i].status = "cancelled" => promotions'[i].status = "cancelled"

\* C19: terminal states of a promotion are absorbing: a Cancel of a
\* promotion whose end_date has passed is rejected and leaves it as it is,
\* and a promotion with status cancelled keeps that status in every step.
C19_TerminalAbsorbing ==
  [][ExpiredNotCancelled /\ CancelledStays]_vars

\* a body with the four fields a submission needs
CompletePost(b) ==
  ~(Falsy(b.vendor_id) \/ Falsy(b.post_title) \/ Falsy(b.post_url) \/ Falsy(b.platform))

\* C20: a Submit by an identified vlogger with vendor_id, title, url and
\* platform given goes on to its upload or insert without touching a post;
\* its upload touches no post; its insert adds exactly one post, pending, with
\* admin_notes, payout_amount, reviewed_at and reviewed_by unset and the
\* vlogger as its owner, keeps every other post as it was and answers 201 with
\* the new post.  None of its steps changes a promotion or a vendor record.
C20_SubmitCreatesOnePending ==
  [][\A r \in ModReqs :
       /\ \A u \in Vloggers, b \in PostBodies, f \in BOOLEAN :
            (CompletePost(b) /\ SubmitBegin(r, u, b, f))
            => (/\ mreq'[r].op = "submit" /\ mreq'[r].pc \in {"upload", "insert"}
                /\ posts' = posts
                /\ promotions' = promotions /\ vendors' = vendors)
       /\ SubmitUpload(r, "ok")
            => (/\ mreq'[r].pc = "insert" /\ posts' = posts
                /\ promotions' = promotions /\ vendors' = vendors)
       /\ SubmitInsert(r, "ok")
            => (/\ Len(posts') = Len(posts) + 1
                /\ SubSeq(posts', 1, Len(posts)) = posts
                /\ Unreviewed(posts'[Len(posts')])
                /\ posts'[Len(posts')].vlogger_id = mreq[r].user
                /\ mres'.status = 201 /\ mres'.id = Len(posts')
                /\ promotions' = promotions /\ vendors' = vendors)]_vars

\* C20 witness: a second post was submitted while the ledger holds a promotion
\* and a featured vendor: it is pending with no review column set.
C20_Witness ==
  /\ mres.op = "submit" /\ mres.status = 201 /\ mres.id = 2
  /\ Len(posts) = 2 /\ Unreviewed(posts[2]) /\ posts[2].vlogger_id = "l1"
  /\ promotions # <<>>
  /\ \E v \in Vendors : vendors[v].is_featured

\* C21: when the upload of a Submit with a screenshot fails, the Submit is
\* answered 400 "Failed to upload screenshot", the request is over and no post
\* is created; a Submit without a screenshot goes to its insert without an
\* upload, and the post it inserts has a null screenshot_url.
C21_UploadFailureAborts ==
  [][\A r \in ModReqs :
       /\ SubmitUpload(r, "error")
            => (/\ mres'.status = 400 /\ mres'.message = "Failed to upload screenshot"
                /\ mreq'[r].pc = "idle"
                /\ posts' = posts)
       /\ \A u \in Vloggers, b \in PostBodies :
            (CompletePost(b) /\ SubmitBegin(r, u, b, FALSE))
            => (mreq'[r].pc = "insert" /\ mreq'[r].screenshotUrl = Null)
       /\ mreq'[r].pc = "upload" => mreq'[r].file
       /\ (~mreq[r].file /\ SubmitInsert(r, "ok"))
            => (/\ Len(posts') = Len(posts) + 1
                /\ posts'[Len(posts')].screenshot_url = Null)]_vars

\* C21 witness: a post submitted without a screenshot is stored with a null
\* screenshot_url, and a later Submit with a screenshot was answered 400 for
\* its upload, leaving that one post.
C21_Witness ==
  /\ mres.op = "submit" /\ mres.status = 400
  /\ mres.message = "Failed to upload screenshot"
  /\ Len(posts) = 1 /\ posts[1].screenshot_url = Null

\* id, price, duration and popular of a catalog entry
Offer(p) == <<p.id, p.price, p.duration, p.popular>>

\* C22: every call of ListPackages, whatever ran before it, answers 200 with
\* the same three entries (basic 2999 for 1 Month, premium 7999 for 3 Months
\* and popular, ultimate 19999 for 6 Months, in this order, equal to the
\* catalog of the source in every field), issues no gateway call and leaves
\* promotions, vendors and posts as they were.
C22_CatalogConstant ==
  [][\A r \in Reqs :
       ListPackages(r)
       => (/\ res'.status = 200
           /\ res'.packages = Packages
           /\ [k \in DOMAIN res'.packages |-> Offer(res'.packages[k])] =
                << <<"basic", 2999, "1 Month", FALSE>>,
                   <<"premium", 7999, "3 Months", TRUE>>,
                   <<"ultimate", 19999, "6 Months", FALSE>> >>
           /\ req' = req
           /\ promotions' = promotions /\ vendors' = vendors /\ posts' = posts)]_vars

\* C22 witness: the catalog was answered after a purchase and a cancel: the
\* ledger holds a cancelled promotion and the answer has three entries.
C22_Witness ==
  /\ res.op = "packages" /\ res.status = 200 /\ Len(res.packages) = 3
  /\ \E i \in Ids : promotions[i].status = "cancelled"
  /\ \E i \in Ids : promotions[i].status = "active"

\* C23: when the lookup of a Purchase answers while the only promotion of
\* the vendor with status active has an end_date that has passed, the
\* Purchase is not rejected: it goes on to its insert.
C23_PurchaseAfterExpiry ==
  [][\A r \in Reqs :
       (/\ req[r].op = "purchase" /\ req[r].pc = "lookup"
        /\ req'[r].pc # "lookup"
        /\ Cardinality(ActiveOf(req[r].vendorId)) = 1
        /\ LiveOf(req[r].vendorId) = {})
       => req'[r].pc = "insert"]_vars

\* C24: the steps of the requests interleave, every gateway call succeeds:
\* once the requests have completed, a vendor is featured if and only if one
\* of its promotions has status active.
C24_FeaturedAfterRace ==
  Quiet => \A v \in Vendors : vendors[v].is_featured <=> (ActiveOf(v) # {})

\* C25: the last answer told of a failed featured-state write for a
\* promotion of vendor v, and now the next Purchase or Cancel of v completes,
\* within the instant it began in, with its own featured-state write made:
\* after that step v is featured
\* exactly when it has an active promotion whose end_date lies ahead, and
\* featured_until is that promotion's end_date.
C25_ConsistentAfterNextWrite ==
  [][\A r \in Reqs :
       (/\ req[r].pc = "feature" /\ req'[r].pc = "idle" /\ res'.logged = "none"
        /\ res.logged = "Error updating vendor profile"
        /\ res.id \in Ids /\ promotions[res.id].vendor_id = req[r].vendorId
        /\ now = (IF req[r].op = "purchase" THEN req[r].startDate ELSE req[r].at))
       => (/\ vendors'[req[r].vendorId].is_featured <=> (LiveOf(req[r].vendorId) # {})
           /\ \A i \in LiveOf(req[r].vendorId) :
                vendors'[req[r].vendorId].featured_until = promotions[i].end_date)]_vars

\* a body with the four fields a purchase needs
CompleteOrder(b) ==
  ~(\/ Falsy(b.package_id) \/ Falsy(b.package_name)
    \/ Falsy(b.package_price) \/ Falsy(b.package_duration))

\* no table is written and no request is left in progress in slot r of the
\* promotions router
LedgerTurnedAway(r, code) ==
  /\ res'.status = code /\ req'[r].pc = "idle"
  /\ promotions' = promotions /\ vendors' = vendors /\ posts' = posts

\* the same for slot r of the posts routers: neither upload nor insert nor
\* update follows
QueueTurnedAway(r, code) ==
  /\ mres'.status = code /\ mreq'[r].pc = "idle"
  /\ promotions' = promotions /\ vendors' = vendors /\ posts' = posts

\* C26: a Purchase or Cancel without an identity (401), a Purchase with a
\* required field missing (400), a Submit without an identity (401) or with a
\* required field missing (400), a Review by a caller who is no admin (403) or
\* without a decision (400) is answered in the step it starts in: no gateway
\* call (lookup, upload, insert, update) follows and no promotion, vendor or
\* post changes.
C26_RejectedBeforeAnyWrite ==
  [][/\ \A r \in Reqs, b \in Bodies :
          /\ PurchaseBegin(r, NoUser, b) => LedgerTurnedAway(r, 401)
          /\ \A u \in Vendors :
               (~CompleteOrder(b) /\ PurchaseBegin(r, u, b)) => LedgerTurnedAway(r, 400)
     /\ \A r \in Reqs, id \in 1..MaxPromos :
          CancelBegin(r, NoUser, id) => LedgerTurnedAway(r, 401)
     /\ \A r \in ModReqs, b \in PostBodies, f \in BOOLEAN :
          /\ SubmitBegin(r, Anonymous, b, f) => QueueTurnedAway(r, 401)
          /\ \A u \in Vloggers :
               (~CompletePost(b) /\ SubmitBegin(r, u, b, f)) => QueueTurnedAway(r, 400)
     /\ \A r \in ModReqs, id \in 1..MaxPosts, b \in GateReviews :
          /\ \A u \in Actors \ Admins :
               (ReviewBegin(r, u, id, b) \/ AdminReviewBegin(r, u, id, b))
               => QueueTurnedAway(r, 403)
          /\ \A u \in Admins :
               (/\ b.status = Undef
                /\ ReviewBegin(r, u, id, b) \/ AdminReviewBegin(r, u, id, b))
               => QueueTurnedAway(r, 400)]_vars

\* C26 witness: a Review by a caller who is no admin was answered 403 while
\* a post is pending, which still has none of the review columns set.
C26_Witness ==
  /\ mres.op \in {"review", "adminReview"} /\ mres.status = 403
  /\ posts # <<>>
  /\ \A i \in PostIds : Unreviewed(posts[i])

\* C27: with the steps of the requests interleaved, a step of a Purchase or
\* Cancel of one vendor changes neither a promotion of another vendor nor the
\* featured state of another vendor, and the update step of a Review changes
\* no post but the one it names.
C27_OthersUntouched ==
  [][/\ \A r \in Reqs :
          (req[r].pc # "idle" /\ req'[r] # req[r])
          => (/\ \A v \in Vendors \ {req[r].vendorId} : vendors'[v] = vendors[v]
              /\ \A i \in Ids :
                   promotions[i].vendor_id # req[r].vendorId
                   => promotions'[i] = promotions[i])
     /\ \A r \in ModReqs :
          (/\ mreq[r].op \in {"review", "adminReview"}
           /\ mreq[r].pc = "update" /\ mreq'[r].pc = "idle")
          => (/\ Len(posts') = Len(posts)
              /\ \A i \in PostIds : i # mreq[r].id => posts'[i] = posts[i])]_vars

\* C27 witness: a vendor has cancelled its promotion while another vendor's
\* promotion is active: the other vendor is still featured.
C27_Witness ==
  /\ res.op = "cancel" /\ res.status = 200 /\ res.id \in Ids
  /\ \E j \in Ids :
       /\ promotions[j].vendor_id # promotions[res.id].vendor_id
       /\ promotions[j].status = "active"
       /\ vendors[promotions[j].vendor_id].is_featured
       /\ ~vendors[promotions[res.id].vendor_id].is_featured

\* C28: when the lookup of a Purchase gives no definite answer (the gateway
\* reports an error, or more than one active row of the vendor matches), the
\* Purchase ends there: it does not go on to its insert, and the ledger is as
\* it was.
C28_IndefiniteLookupStops ==
  [][\A r \in Reqs :
       (\/ PurchaseLookup(r, "error")
        \/ Cardinality(ActiveOf(req[r].vendorId)) > 1 /\ PurchaseLookup(r, "ok"))
       => (req'[r].pc = "idle" /\ promotions' = promotions)]_vars

\* C29: the step in which the update of PUT /api/vendors/:id answers leaves
\* is_featured, promotion_tier and featured_until of every vendor as they
\* were, whatever the body.
C29_VendorUpdateKeepsFeatured ==
  [][\A r \in Reqs :
       (req[r].op = "vendorUpdate" /\ req[r].pc = "update" /\ req'[r].pc = "idle")
       => \A v \in Vendors :
            /\ vendors'[v].is_featured = vendors[v].is_featured
            /\ vendors'[v].promotion_tier = vendors[v].promotion_tier
            /\ vendors'[v].featured_until = vendors[v].featured_until]_vars

\* the row is what a Purchase of catalog entry p stores
FromPackage(row, p) ==
  /\ row.package_id = Str(p.id)
  /\ row.package_price = Num(p.price)
  /\ row.package_duration = Str(p.duration)

\* C30: package_id, package_price and package_duration of every promotion
\* of the ledger are id, price and duration of one entry of the catalog of
\* ListPackages.
C30_RowsFromCatalog ==
  \A i \in Ids : \E k \in DOMAIN Packages : FromPackage(promotions[i], Packages[k])

====
